---- MODULE Spec2Model ----
(***************************************************************************)
(* Write path and read-by-id of the "serie" application core:              *)
(* SerieWriteService (create, addFile, update, delete) and                 *)
(* SerieReadService.findById, running against the relational tables        *)
(* serie, titel, cover and serie_file.  Every `await` of the services is a *)
(* separate step, so calls of different callers interleave at the points   *)
(* where the code suspends.                                                *)
(***************************************************************************)
EXTENDS Integers, Sequences, FiniteSets, TLC

\* ------------------------------------------------------------------ bounds
\* highest version a stored serie reaches through updates
MaxVersion == 2

\* the number of successive updates of one serie that is followed
MaxUpdates == 1000

\* callers whose calls may interleave
Procs == {1, 2}
\* the single caller of the sequential specification
SeqProcs == {1}

\* the ids the identity column of serie hands out
SerieIds == {1, 2}
Seriennummern == {"SER-1", "SER-2"}
\* export type SerieArt = 'STREAM' | 'TV' | 'DVD'
Arten == {"STREAM", "TV", "DVD"}

\* ---- strings that are searched in: sequences of characters
NoText == << >>
JAVASCRIPT == << "J", "A", "V", "A", "S", "C", "R", "I", "P", "T" >>
TYPESCRIPT == << "T", "Y", "P", "E", "S", "C", "R", "I", "P", "T" >>
JAVA == << "J", "A", "V", "A" >>
PYTHON == << "P", "Y", "T", "H", "O", "N" >>

\* schlagwoerter: string[] | null
Null == [null |-> TRUE, array |-> << >>]
Array(tags) == [null |-> FALSE, array |-> tags]

\* series as they are created: seriennummer, art, rating, preis (in whole
\* units), schlagwoerter and the titel
Alpha == [seriennummer |-> "SER-1", art |-> "STREAM", rating |-> 5,
          preis |-> 1, schlagwoerter |-> Null,
          titel |-> << "A", "l", "p", "h", "a" >>]
Zeta == [seriennummer |-> "SER-2", art |-> "TV", rating |-> 1,
         preis |-> 3, schlagwoerter |-> Array(<< JAVASCRIPT >>),
         titel |-> << "Z", "e", "t", "a" >>]
Echo == [seriennummer |-> "SER-1", art |-> "DVD", rating |-> 5,
         preis |-> 3, schlagwoerter |-> Array(<< JAVASCRIPT, JAVA >>),
         titel |-> << "E", "c", "h", "o" >>]
Theta == [seriennummer |-> "SER-2", art |-> "STREAM", rating |-> 2,
          preis |-> 1, schlagwoerter |-> Array(<< JAVA, TYPESCRIPT >>),
          titel |-> << "T", "h", "e", "t", "a" >>]

\* the payloads that create is called with
SerieDTOs == { Alpha, Zeta }

\* the payloads of the series that are stored when find is called
StoredDTOs == { Alpha, Zeta, Echo, Theta }

\* ---- the inputs of find
\* the largest page number and the largest page size a caller asks for
MaxPageNumber == 1
MaxPageSize == 2

\* the keys a caller puts into its Suchkriterien: two properties of Serie and
\* a name that is no property (params = { foo: 'bar' })
SuchKeys == {"seriennummer", "art", "foo"}

\* the values a caller gives to a key; 'UNSICHTBAR' is no SerieArt
SuchValues(key) ==
    CASE key = "seriennummer" -> Seriennummern
      [] key = "art" -> Arten \cup {"UNSICHTBAR"}
      [] key = "foo" -> {"bar"}

\* suchkriterien: Suchkriterien | undefined, an object of keys with values
Suchkriterien ==
    { [undefined |-> TRUE, props |-> << >>] } \cup
    { [undefined |-> FALSE, props |-> f] :
        f \in UNION { { g \in [K -> UNION { SuchValues(k) : k \in SuchKeys }] :
                          \A k \in K : g[k] \in SuchValues(k) } :
                      K \in SUBSET SuchKeys } }

NoSuchkriterien == [undefined |-> TRUE, props |-> << >>]

\* the string 'true' of a query parameter
True == << "t", "r", "u", "e" >>

\* the value of a filter with its typeof: a string as a query parameter
\* carries it, a number or a boolean as a caller of the service passes it
String(s) == [typeof |-> "string", string |-> s, number |-> 0, boolean |-> FALSE]

NumberValue(n) ==
    [typeof |-> "number", string |-> << >>, number |-> n, boolean |-> FALSE]

Boolean(b) ==
    [typeof |-> "boolean", string |-> << >>, number |-> 0, boolean |-> b]

\* the filters a caller puts into its Suchkriterien: a part of a titel, a
\* least rating, a largest preis and two of the names of a Schlagwort
FilterKeys == {"titel", "rating", "preis", "javascript", "java"}

\* the string a query parameter carries for a filter
FilterValue(key) ==
    CASE key = "titel" -> String(<< "a" >>)
      [] key = "rating" -> String(<< "3" >>)
      [] key = "preis" -> String(<< "2" >>)
      [] key = "javascript" -> String(True)
      [] key = "java" -> String(True)

\* Suchkriterien made of filters
Filterkriterien ==
    { [undefined |-> FALSE, props |-> [k \in K |-> FilterValue(k)]] :
        K \in SUBSET FilterKeys }

\* the filters a caller gives as a string, a number or a boolean
TypedKeys == {"rating", "preis", "javascript"}

\* the values of such a filter: a rating as a numeric string, as a string
\* that is no number and as a number, a preis as a numeric string and as a
\* number, javascript as the string 'true' and as the boolean
TypedValues(key) ==
    CASE key = "rating" ->
           { String(<< "3" >>), String(<< "x" >>), NumberValue(3) }
      [] key = "preis" -> { String(<< "2" >>), NumberValue(2) }
      [] key = "javascript" -> { String(True), Boolean(TRUE) }

\* Suchkriterien made of filters of every type
Typedkriterien ==
    { [undefined |-> FALSE, props |-> f] :
        f \in UNION { { g \in [K -> UNION { TypedValues(k) : k \in TypedKeys }] :
                          \A k \in K : g[k] \in TypedValues(k) } :
                      K \in SUBSET TypedKeys } }

\* pageable: { number, size }, size 0 for a query without paging
Pageables == [number : 0 .. MaxPageNumber, size : 0 .. MaxPageSize]

NoPageable == [number |-> 0, size |-> 0]
\* a number that is `undefined` or NaN
Undefined == 0 - 1
\* a string property that is `undefined` in a payload
NoString == ""

\* --------------------------------------------------------- version tokens
Quote == "\""
DigitChars == <<"0", "1", "2", "3", "4", "5", "6", "7", "8", "9">>

IsDigit(c) == \E i \in 1 .. 10 : DigitChars[i] = c

DigitValue(c) == (CHOOSE i \in 1 .. 10 : DigitChars[i] = c) - 1

RECURSIVE DecimalString(_)
DecimalString(n) ==
    IF n < 10 THEN << DigitChars[n + 1] >>
    ELSE DecimalString(n \div 10) \o << DigitChars[(n % 10) + 1] >>

\* `"${version}"`: the token that quotes a version number
VersionToken(n) == << Quote >> \o DecimalString(n) \o << Quote >>

\* number of leading digits of s
RECURSIVE LeadingDigits(_)
LeadingDigits(s) ==
    IF s = << >> \/ ~IsDigit(Head(s)) THEN 0
    ELSE 1 + LeadingDigits(Tail(s))

\* variant of the pattern: a minus sign may precede the digits
VersionPatternSigned(s) ==
    /\ Len(s) >= 3
    /\ s[1] = Quote
    /\ \E k \in 1 .. 3, sign \in 0 .. 1 :
          /\ Len(s) >= k + sign + 2
          /\ sign = 1 => s[2] = "-"
          /\ \A i \in (2 + sign) .. (k + sign + 1) : IsDigit(s[i])
          /\ s[k + sign + 2] = Quote

\* VERSION_PATTERN = /^"\d{1,3}"/u : anchored at the start only
VERSION_PATTERN(s) ==
    /\ Len(s) >= 3
    /\ s[1] = Quote
    /\ \E k \in 1 .. 3 :
          /\ Len(s) >= k + 2
          /\ \A i \in 2 .. (k + 1) : IsDigit(s[i])
          /\ s[k + 2] = Quote

\* versionStr.slice(1, -1)
Slice1(s) == IF Len(s) < 2 THEN << >> ELSE SubSeq(s, 2, Len(s) - 1)

RECURSIVE DigitsValue(_, _)
DigitsValue(s, n) ==
    IF n = 0 THEN 0
    ELSE DigitsValue(s, n - 1) * 10 + DigitValue(s[n])

\* Number.parseInt(s, 10) for a string without sign or blanks;
\* NaN (no leading digit) is Undefined
ParseInt(s) ==
    IF LeadingDigits(s) = 0 THEN Undefined
    ELSE DigitsValue(s, LeadingDigits(s))

\* tokens that do not have the shape of a quoted number
OtherTokens ==
    { << Quote, "-", "1", Quote >>,
      << Quote, "1", Quote, "x" >> }

\* the tokens callers send
Tokens == { VersionToken(n) : n \in 0 .. MaxVersion } \cup OtherTokens

NoToken == << >>

\* ------------------------------------------------------------------ state
VARIABLES
    serie,        \* table serie: id -> row
    titel,        \* table titel: rows [id, serie_id]
    cover,        \* table cover: rows [id, serie_id]
    serie_file,   \* table serie_file: rows [serie_id, filename], oldest first
    nextSerieId,  \* identity column of serie
    nextTitelId,  \* identity column of titel
    nextCoverId,  \* identity column of cover
    pc,           \* per caller: the await it is suspended at, or "idle"
    op,           \* per caller: the operation running, or the last one run
    arg,          \* per caller: id, version token and payload of the call
    serieDb,      \* per caller: the entity findById loaded for the call
    res,          \* per caller: outcome of the last completed call
    mail,         \* per caller: what became of the mail of its call
    buecher       \* per caller: the rows getMany gave to its find

tables == << serie, titel, cover, serie_file >>
sequences == << nextSerieId, nextTitelId, nextCoverId >>
vars == << serie, titel, cover, serie_file, nextSerieId, nextTitelId,
           nextCoverId, pc, op, arg, serieDb, res, mail, buecher >>

Filenames == {"a.png", "b.png"}

\* version integer NOT NULL DEFAULT 0
VersionDefault == 0

NoRow == [stored |-> FALSE, version |-> 0, seriennummer |-> NoString,
          art |-> NoString, rating |-> 0, preis |-> 0, schlagwoerter |-> Null]

NoSerie == [found |-> FALSE, id |-> 0, version |-> 0, seriennummer |-> NoString,
            art |-> NoString, rating |-> 0, preis |-> 0, schlagwoerter |-> Null,
            titel |-> NoText,
            titelId |-> 0, coversLoaded |-> FALSE, covers |-> {}]

NoArg == [id |-> 0, version |-> NoToken, seriennummer |-> NoString,
          art |-> NoString, rating |-> 0, preis |-> 0, schlagwoerter |-> Null,
          titel |-> NoText,
          covers |-> 0, filename |-> NoString, mitCovers |-> FALSE,
          suchkriterien |-> NoSuchkriterien, pageable |-> NoPageable]

NoResult == [kind |-> "none", num |-> 0]

Result(k, n) == [kind |-> k, num |-> n]

Init ==
    /\ serie = [i \in SerieIds |-> NoRow]
    /\ titel = {}
    /\ cover = {}
    /\ serie_file = << >>
    /\ nextSerieId = 1
    /\ nextTitelId = 1
    /\ nextCoverId = 1
    /\ pc = [p \in Procs |-> "idle"]
    /\ op = [p \in Procs |-> "none"]
    /\ arg = [p \in Procs |-> NoArg]
    /\ serieDb = [p \in Procs |-> NoSerie]
    /\ res = [p \in Procs |-> NoResult]
    /\ mail = [p \in Procs |-> "none"]
    /\ buecher = [p \in Procs |-> << >>]

\* --------------------------------------------------------------- helpers
Stored(id) == id \in SerieIds /\ serie[id].stored

TitelOf(id) == { t \in titel : t.serie_id = id }
CoversOf(id) == { c \in cover : c.serie_id = id }
FilesOf(id) == SelectSeq(serie_file, LAMBDA f : f.serie_id = id)

Max(S) == CHOOSE x \in S : \A y \in S : y <= x

\* the ids callers pass: the ids the store has handed out, whose serie is
\* stored or has been deleted
CallIds == { i \in SerieIds : i < nextSerieId }

Running(o) == Cardinality({ p \in Procs : pc[p] # "idle" /\ op[p] = o })

\* a caller starts a call: its former outcome is forgotten
Call(p, o, a, at) ==
    /\ pc[p] = "idle"
    /\ pc' = [pc EXCEPT ![p] = at]
    /\ op' = [op EXCEPT ![p] = o]
    /\ arg' = [arg EXCEPT ![p] = a]
    /\ serieDb' = [serieDb EXCEPT ![p] = NoSerie]
    /\ res' = [res EXCEPT ![p] = NoResult]
    /\ mail' = [mail EXCEPT ![p] = "none"]
    /\ buecher' = [buecher EXCEPT ![p] = << >>]

\* what is kept of a call once it has ended: its id and its version token,
\* or its Suchkriterien and its pageable
Ended(a) == [NoArg EXCEPT !.id = a.id, !.version = a.version,
                          !.suchkriterien = a.suchkriterien,
                          !.pageable = a.pageable]

\* a call that ends before its first await
CallEnds(p, o, a, r) ==
    /\ pc[p] = "idle"
    /\ pc' = pc
    /\ op' = [op EXCEPT ![p] = o]
    /\ arg' = [arg EXCEPT ![p] = Ended(a)]
    /\ serieDb' = [serieDb EXCEPT ![p] = NoSerie]
    /\ res' = [res EXCEPT ![p] = r]
    /\ mail' = [mail EXCEPT ![p] = "none"]
    /\ buecher' = [buecher EXCEPT ![p] = << >>]

\* a call ends, by returning a value or by throwing
Return(p, r) ==
    /\ pc' = [pc EXCEPT ![p] = "idle"]
    /\ res' = [res EXCEPT ![p] = r]
    /\ arg' = [arg EXCEPT ![p] = Ended(arg[p])]
    /\ serieDb' = [serieDb EXCEPT ![p] = NoSerie]
    /\ UNCHANGED << op, mail, buecher >>

\* a call ends by returning the entity it has loaded
ReturnSerie(p, db) ==
    /\ pc' = [pc EXCEPT ![p] = "idle"]
    /\ res' = [res EXCEPT ![p] = Result("serie", db.version)]
    /\ arg' = [arg EXCEPT ![p] = Ended(arg[p])]
    /\ serieDb' = [serieDb EXCEPT ![p] = db]
    /\ UNCHANGED << op, mail, buecher >>

Goto(p, at, db) ==
    /\ pc' = [pc EXCEPT ![p] = at]
    /\ serieDb' = [serieDb EXCEPT ![p] = db]
    /\ UNCHANGED << op, arg, res, mail, buecher >>

\* -------------------------------------------------- SerieReadService
\* variant of the query by id: the covers are joined whatever mitCovers is
BuildIdGetOneWithCovers(id, mitCovers) ==
    IF id \in SerieIds /\ serie[id].stored /\ { t \in titel : t.serie_id = id } # {}
    THEN [NoSerie EXCEPT
            !.found = TRUE, !.id = id, !.version = serie[id].version,
            !.seriennummer = serie[id].seriennummer,
            !.art = serie[id].art,
            !.rating = serie[id].rating,
            !.preis = serie[id].preis,
            !.schlagwoerter = serie[id].schlagwoerter,
            !.titel = (CHOOSE t \in titel : t.serie_id = id).titel,
            !.titelId = (CHOOSE t \in titel : t.serie_id = id).id,
            !.coversLoaded = TRUE,
            !.covers = { c.id : c \in { r \in cover : r.serie_id = id } }]
    ELSE NoSerie

\* QueryBuilder.buildId(...).getOne(): serie inner join titel, covers only
\* when mitCovers is set
BuildIdGetOne(id, mitCovers) ==
    IF Stored(id) /\ TitelOf(id) # {}
    THEN [found |-> TRUE, id |-> id, version |-> serie[id].version,
          seriennummer |-> serie[id].seriennummer,
          art |-> serie[id].art,
          rating |-> serie[id].rating,
          preis |-> serie[id].preis,
          schlagwoerter |-> serie[id].schlagwoerter,
          titel |-> (CHOOSE t \in TitelOf(id) : TRUE).titel,
          titelId |-> (CHOOSE t \in TitelOf(id) : TRUE).id,
          coversLoaded |-> mitCovers,
          covers |-> IF mitCovers THEN { c.id : c \in CoversOf(id) } ELSE {}]
    ELSE NoSerie

\* variant of the check of the query result: never null
NeverNull(db) == FALSE

\* if (serie === null) throw new NotFoundException(...)
IsNull(db) == ~ db.found

\* variant of the normalisation: null stays null
KeepNull(schlagwoerter) == schlagwoerter

\* if (serie.schlagwoerter === null) { serie.schlagwoerter = []; }
EmptyIfNull(schlagwoerter) ==
    IF schlagwoerter.null THEN Array(<< >>) ELSE schlagwoerter

\* findById after its query: the entity with its schlagwoerter normalised
Normalised(db) == [db EXCEPT !.schlagwoerter = EmptyIfNull(@)]

FindByIdCall(p) ==
    /\ \E id \in CallIds, mc \in BOOLEAN :
          Call(p, "findById", [NoArg EXCEPT !.id = id, !.mitCovers = mc], "f_getOne")
    /\ UNCHANGED << tables, sequences >>

FindById(p) ==
    /\ pc[p] = "f_getOne"
    /\ LET s == BuildIdGetOne(arg[p].id, arg[p].mitCovers) IN
          IF IsNull(s) THEN Return(p, Result("NotFound", 0))
          ELSE ReturnSerie(p, Normalised(s))
    /\ UNCHANGED << tables, sequences >>

\* ---- find
\* Object.getOwnPropertyNames(new Serie()): the fields the class declares
SerieProps ==
    {"id", "version", "seriennummer", "rating", "art", "preis", "rabatt",
     "trailer", "datum", "homepage", "schlagwoerter", "titel", "covers",
     "file", "erzeugt", "aktualisiert", "toString"}

\* variant of #checkKeys: every key passes
CheckKeysAlways(keys) == TRUE

\* #checkKeys: is every key a property of Serie or one of the four names of
\* a Schlagwort
CheckKeys(keys) ==
    \A key \in keys :
        ~ ( /\ key \notin SerieProps
            /\ key # "javascript"
            /\ key # "typescript"
            /\ key # "java"
            /\ key # "python" )

\* variant of #checkEnums: 'DVD' is no art
CheckEnumsNoDvd(props) ==
    \/ "art" \notin DOMAIN props
    \/ props["art"] = "STREAM"
    \/ props["art"] = "TV"

\* #checkEnums: art is undefined or one of the three values of SerieArt
CheckEnums(props) ==
    \/ "art" \notin DOMAIN props
    \/ props["art"] = "STREAM"
    \/ props["art"] = "TV"
    \/ props["art"] = "DVD"

\* the names QueryBuilder.build takes out of the Suchkriterien before the
\* rest properties
BuildProps ==
    {"titel", "rating", "preis", "javascript", "typescript", "java", "python"}

\* ---- strings
\* Number(string) of a string without sign, blanks and point: the value of
\* a string of digits, 0 for the empty string, NaN otherwise
Number(s) ==
    IF LeadingDigits(s) = Len(s) THEN DigitsValue(s, Len(s)) ELSE Undefined

IsNaN(n) == n = Undefined

UpperCase == << "A", "B", "C", "D", "E", "F", "G", "H", "I", "J", "K", "L", "M",
                "N", "O", "P", "Q", "R", "S", "T", "U", "V", "W", "X", "Y", "Z" >>

LowerCase == << "a", "b", "c", "d", "e", "f", "g", "h", "i", "j", "k", "l", "m",
                "n", "o", "p", "q", "r", "s", "t", "u", "v", "w", "x", "y", "z" >>

\* a string with its upper case letters replaced by the lower case ones
Lower(s) ==
    [j \in 1 .. Len(s) |->
        IF \E u \in 1 .. Len(UpperCase) : UpperCase[u] = s[j]
        THEN LowerCase[CHOOSE u \in 1 .. Len(UpperCase) : UpperCase[u] = s[j]]
        ELSE s[j]]

\* string like '%part%'
Like(string, part) ==
    \E k \in 0 .. Len(string) - Len(part) :
        SubSeq(string, k + 1, k + Len(part)) = part

\* string ilike '%part%'
ILike(string, part) == Like(Lower(string), Lower(part))

\* variant of REPLACE: nothing is replaced
ReplaceNothing(string, from) == string

\* REPLACE(string, from, ''): every occurrence of from is taken out
RECURSIVE Replace(_, _)
Replace(string, from) ==
    IF Len(string) < Len(from) THEN string
    ELSE IF SubSeq(string, 1, Len(from)) = from
         THEN Replace(SubSeq(string, Len(from) + 1, Len(string)), from)
         ELSE << string[1] >> \o Replace(Tail(string), from)

\* the text of a simple-array column: the values joined by commas
RECURSIVE Join(_)
Join(array) ==
    IF Len(array) = 0 THEN << >>
    ELSE IF Len(array) = 1 THEN array[1]
         ELSE array[1] \o << "," >> \o Join(Tail(array))

\* ---- the query of find
\* one condition of a WHERE clause
Condition(kind, key, value) == [kind |-> kind, key |-> key, value |-> value]

\* queryBuilder.where(condition): the condition replaces the conditions
\* set before
Where(conditions, condition) == << condition >>

\* queryBuilder.andWhere(condition): one more condition
AndWhere(conditions, condition) == Append(conditions, condition)

\* useWhere ? queryBuilder.where(condition) : queryBuilder.andWhere(condition)
WhereOrAndWhere(useWhere, conditions, condition) ==
    IF useWhere THEN Where(conditions, condition)
    ELSE AndWhere(conditions, condition)

\* the rest properties in the order of Object.entries
RECURSIVE Entries(_, _)
Entries(props, keys) ==
    IF keys = {} THEN << >>
    ELSE LET key == CHOOSE k \in keys : TRUE
         IN << Condition("=", key, props[key]) >> \o
            Entries(props, keys \ {key})

\* Object.entries(restProps).forEach: one comparison on equality per key
RECURSIVE ForEach(_, _, _)
ForEach(entries, useWhere, conditions) ==
    IF Len(entries) = 0 THEN conditions
    ELSE ForEach(Tail(entries), FALSE,
                 WhereOrAndWhere(useWhere, conditions, entries[1]))

\* QueryBuilder.build: the conditions of the WHERE clause, made in the order
\* titel, rating, preis, javascript, typescript, java, python, rest
\* properties
Build(props) ==
    LET Has(key) == key \in DOMAIN props
        IsTrue(key) ==
            /\ Has(key)
            /\ props[key].typeof = "string"
            /\ props[key].string = True
        titelSet == Has("titel") /\ props["titel"].typeof = "string"
        c1 == IF titelSet
              THEN Where(<< >>, Condition("ilike", "titel",
                                          props["titel"].string))
              ELSE << >>
        ratingNumber == IF props["rating"].typeof = "string"
                        THEN ParseInt(props["rating"].string)
                        ELSE props["rating"].number
        ratingSet == Has("rating") /\ ~ IsNaN(ratingNumber)
        c2 == IF ratingSet
              THEN Where(c1, Condition(">=", "rating", ratingNumber))
              ELSE c1
        preisSet == Has("preis") /\ props["preis"].typeof = "string"
        c3 == IF preisSet
              THEN Where(c2, Condition("<=", "preis",
                                       Number(props["preis"].string)))
              ELSE c2
        u3 == ~ ( titelSet \/ ratingSet \/ preisSet )
        c4 == IF IsTrue("javascript")
              THEN WhereOrAndWhere(u3, c3, Condition("like", "schlagwoerter",
                                                     JAVASCRIPT))
              ELSE c3
        u4 == u3 /\ ~ IsTrue("javascript")
        c5 == IF IsTrue("typescript")
              THEN WhereOrAndWhere(u4, c4, Condition("like", "schlagwoerter",
                                                     TYPESCRIPT))
              ELSE c4
        u5 == u4 /\ ~ IsTrue("typescript")
        c6 == IF IsTrue("java")
              THEN WhereOrAndWhere(u5, c5, Condition("replace like",
                                                     "schlagwoerter", JAVA))
              ELSE c5
        u6 == u5 /\ ~ IsTrue("java")
        c7 == IF IsTrue("python")
              THEN WhereOrAndWhere(u6, c6, Condition("like", "schlagwoerter",
                                                     PYTHON))
              ELSE c6
        u7 == u6 /\ ~ IsTrue("python")
    IN ForEach(Entries(props, DOMAIN props \ BuildProps), u7, c7)

\* is the condition true of the row of an id joined with its titel; a
\* comparison with the NULL of schlagwoerter is not true
Holds(condition, id) ==
    CASE condition.kind = "ilike" ->
           \E t \in TitelOf(id) : ILike(t.titel, condition.value)
      [] condition.kind = ">=" -> serie[id].rating >= condition.value
      [] condition.kind = "<=" -> serie[id].preis <= condition.value
      [] condition.kind = "like" ->
           /\ ~ serie[id].schlagwoerter.null
           /\ Like(Join(serie[id].schlagwoerter.array), condition.value)
      [] condition.kind = "replace like" ->
           /\ ~ serie[id].schlagwoerter.null
           /\ Like(Replace(Join(serie[id].schlagwoerter.array), JAVASCRIPT),
                   condition.value)
      [] condition.kind = "=" -> serie[id][condition.key] = condition.value

\* the ids of the rows of the query: serie inner join titel, every condition
\* of the WHERE clause met
QueryIds(where) ==
    { i \in SerieIds :
        /\ Stored(i)
        /\ TitelOf(i) # {}
        /\ \A w \in 1 .. Len(where) : Holds(where[w], i) }

\* the ids of a set in ascending order
RECURSIVE Ascending(_)
Ascending(S) ==
    IF S = {} THEN << >>
    ELSE LET least == CHOOSE x \in S : \A y \in S : x <= y
         IN << least >> \o Ascending(S \ {least})

Min(a, b) == IF a < b THEN a ELSE b

\* variant of getMany: skip = number instead of number * size
GetManySkipNumber(where, pageable) ==
    LET rows == Ascending(QueryIds(where)) IN
        IF pageable.size = 0 THEN rows
        ELSE LET size == pageable.size
                 skip == pageable.number
             IN SubSeq(rows, skip + 1, Min(skip + size, Len(rows)))

\* getMany(): all rows when pageable.size is 0, otherwise the rows after the
\* first skip = number * size rows, at most size of them (take, skip)
GetMany(where, pageable) ==
    LET rows == Ascending(QueryIds(where)) IN
        IF pageable.size = 0 THEN rows
        ELSE LET size == pageable.size
                 skip == pageable.number * size
             IN SubSeq(rows, skip + 1, Min(skip + size, Len(rows)))

\* variant of getCount: at most the rows of a page of one row
GetCountOfPage(where) == Min(1, Cardinality(QueryIds(where)))

\* getCount(): the number of rows of the query, without take and skip
GetCount(where) == Cardinality(QueryIds(where))

\* the criteria the query of a find is built from: {} in #findAll
BuildOf(suchkriterien) ==
    IF suchkriterien.undefined \/ DOMAIN suchkriterien.props = {}
    THEN Build(<< >>)
    ELSE Build(suchkriterien.props)

\* the entity getMany makes of the row of an id: the columns of serie and
\* the titel of the joined row
Entity(id) ==
    [id |-> id, seriennummer |-> serie[id].seriennummer,
     art |-> serie[id].art, rating |-> serie[id].rating,
     preis |-> serie[id].preis, schlagwoerter |-> serie[id].schlagwoerter,
     titel |-> (CHOOSE t \in TitelOf(id) : TRUE).titel]

Entities(ids) == [i \in 1 .. Len(ids) |-> Entity(ids[i])]

\* #createSlice: buecher.forEach with the normalisation of schlagwoerter
CreateSlice(entities) ==
    [i \in 1 .. Len(entities) |->
        [entities[i] EXCEPT !.schlagwoerter = EmptyIfNull(@)]]

\* variant of the test on the rows of getMany: never empty
NeverEmpty(rows) == FALSE

\* buecher.length === 0
IsEmpty(rows) == Len(rows) = 0

\* find is called: undefined or empty Suchkriterien go on to #findAll,
\* wrong keys or a wrong art end the call with NotFoundException before
\* the query is built
Find(p, suchkriterien, pageable) ==
    LET a == [NoArg EXCEPT !.suchkriterien = suchkriterien,
                           !.pageable = pageable]
        keys == DOMAIN suchkriterien.props
    IN IF /\ ~ suchkriterien.undefined
          /\ keys # {}
          /\ ( ~ CheckKeys(keys) \/ ~ CheckEnums(suchkriterien.props) )
       THEN CallEnds(p, "find", a, Result("NotFound", 0))
       ELSE Call(p, "find", a, "f_getMany")

\* find with keys of properties and of no property
FindCall(p) ==
    /\ \E suchkriterien \in Suchkriterien, pageable \in Pageables :
          Find(p, suchkriterien, pageable)
    /\ UNCHANGED << tables, sequences >>

\* find with filters
FilterCall(p) ==
    /\ \E suchkriterien \in Filterkriterien, pageable \in Pageables :
          Find(p, suchkriterien, pageable)
    /\ UNCHANGED << tables, sequences >>

\* await queryBuilder.getMany(): no row ends the call with
\* NotFoundException, in find and in #findAll
FindGetMany(p) ==
    /\ pc[p] = "f_getMany"
    /\ LET rows == GetMany(BuildOf(arg[p].suchkriterien), arg[p].pageable) IN
          IF IsEmpty(rows)
          THEN /\ Return(p, Result("NotFound", 0))
          ELSE /\ pc' = [pc EXCEPT ![p] = "f_getCount"]
               /\ buecher' = [buecher EXCEPT ![p] = Entities(rows)]
               /\ UNCHANGED << op, arg, serieDb, res, mail >>
    /\ UNCHANGED << tables, sequences >>

\* await queryBuilder.getCount() and #createSlice: the call returns the rows
\* of getMany as content, with totalElements
FindGetCount(p) ==
    /\ pc[p] = "f_getCount"
    /\ pc' = [pc EXCEPT ![p] = "idle"]
    /\ res' = [res EXCEPT ![p] =
                  Result("slice", GetCount(BuildOf(arg[p].suchkriterien)))]
    /\ arg' = [arg EXCEPT ![p] = Ended(arg[p])]
    /\ buecher' = [buecher EXCEPT ![p] = CreateSlice(buecher[p])]
    /\ UNCHANGED << op, serieDb, mail >>
    /\ UNCHANGED << tables, sequences >>

\* ------------------------------------------------- SerieWriteService
\* ---- create
\* #repo.existsBy({ isbn }): the entity Serie has no property isbn, so the
\* criterion is undefined; the query either drops it (some row exists) or
\* matches no row
ExistsByIsbn == { \E i \in SerieIds : serie[i].stored, FALSE }

CreateCall(p) ==
    /\ (nextSerieId - 1) + Running("create") < Cardinality(SerieIds)
    /\ \E dto \in SerieDTOs, n \in 0 .. 1 :
          Call(p, "create",
               [NoArg EXCEPT !.seriennummer = dto.seriennummer,
                             !.art = dto.art, !.rating = dto.rating,
                             !.preis = dto.preis,
                             !.schlagwoerter = dto.schlagwoerter,
                             !.titel = dto.titel, !.covers = n],
               "c_validate")
    /\ UNCHANGED << tables, sequences >>

\* #validateCreate
ValidateCreate(p) ==
    /\ pc[p] = "c_validate"
    /\ \E exists \in ExistsByIsbn :
          IF exists THEN Return(p, Result("IsbnExists", 0))
          ELSE Goto(p, "c_save", NoSerie)
    /\ UNCHANGED << tables, sequences >>

\* variant of the save: the titel of the entity is not inserted
NoCascadeInsert(t, titelId, id, text) == t

\* cascade: ['insert', 'remove'] of Serie.titel: save inserts the titel of
\* the entity when no row of it is stored
CascadeInsertTitel(t, titelId, id, text) ==
    IF \E r \in t : r.id = titelId THEN t
    ELSE t \cup { [id |-> titelId, serie_id |-> id, titel |-> text] }

\* variant of the inserted row: the seriennummer of the entity is not written
InsertedRowNoSeriennummer(entity) ==
    [stored |-> TRUE, version |-> VersionDefault, seriennummer |-> NoString,
     art |-> entity.art, rating |-> entity.rating, preis |-> entity.preis,
     schlagwoerter |-> entity.schlagwoerter]

\* variant of the inserted row: the version column starts at one
InsertedRowVersionOne(entity) ==
    [stored |-> TRUE, version |-> VersionDefault + 1,
     seriennummer |-> entity.seriennummer, art |-> entity.art,
     rating |-> entity.rating, preis |-> entity.preis,
     schlagwoerter |-> entity.schlagwoerter]

\* the row #repo.save(entity) inserts when no row of the entity is stored:
\* the columns of the entity; the version column is not among the values of
\* the entity (version: undefined) and takes its default
InsertedRow(entity) ==
    [stored |-> TRUE, version |-> VersionDefault,
     seriennummer |-> entity.seriennummer, art |-> entity.art,
     rating |-> entity.rating, preis |-> entity.preis,
     schlagwoerter |-> entity.schlagwoerter]

\* #repo.save(serie) of a new entity: serie, titel (cascade insert) and covers
\* (cascade insert) in one implicit transaction
CreateSave(p) ==
    /\ pc[p] = "c_save"
    /\ LET id == nextSerieId
           covers == { nextCoverId + k : k \in 0 .. (arg[p].covers - 1) } IN
          /\ serie' = [serie EXCEPT ![id] = InsertedRow(arg[p])]
          /\ titel' = CascadeInsertTitel(titel, nextTitelId, id, arg[p].titel)
          /\ cover' = cover \cup { [id |-> c, serie_id |-> id] : c \in covers }
          /\ nextSerieId' = nextSerieId + 1
          /\ nextTitelId' = nextTitelId + 1
          /\ nextCoverId' = nextCoverId + arg[p].covers
          /\ Goto(p, "c_mail", [NoSerie EXCEPT !.found = TRUE, !.id = id])
    /\ UNCHANGED serie_file

\* MailService.sendmail: the mail is sent, or the failure to send it is
\* logged; the promise is fulfilled in both cases
MailServiceSendmail ==
    { [mail |-> "sent", rejected |-> FALSE],
      [mail |-> "failed", rejected |-> FALSE] }

\* variant of the end of create: the id only when the mail has been sent
CreateReturnsIfSent(sendmail, id) ==
    IF sendmail.rejected \/ sendmail.mail # "sent"
    THEN Result("MailFailed", 0)
    ELSE Result("id", id)

\* await this.#sendmail(serieDb); return serieDb.id: a rejected promise
\* is thrown on
CreateReturns(sendmail, id) ==
    IF sendmail.rejected THEN Result("MailFailed", 0) ELSE Result("id", id)

\* #sendmail and the end of create
Sendmail(p) ==
    /\ pc[p] = "c_mail"
    /\ \E sendmail \in MailServiceSendmail :
          /\ mail' = [mail EXCEPT ![p] = sendmail.mail]
          /\ pc' = [pc EXCEPT ![p] = "idle"]
          /\ res' = [res EXCEPT ![p] = CreateReturns(sendmail, serieDb[p].id)]
          /\ arg' = [arg EXCEPT ![p] = Ended(arg[p])]
          /\ serieDb' = [serieDb EXCEPT ![p] = NoSerie]
          /\ UNCHANGED << op, buecher >>
    /\ UNCHANGED << tables, sequences >>

\* ---- update
\* variant of merge: undefined properties of the payload overwrite as well
MergeUndefined(db, payload) ==
    [db EXCEPT !.seriennummer = payload.seriennummer]

\* #repo.merge(serieNeu, serie): defined properties of the payload overwrite
Merge(db, payload) ==
    [db EXCEPT
        !.seriennummer = IF payload.seriennummer = NoString THEN @
                         ELSE payload.seriennummer]

MaxStoredVersion == Max({ serie[i].version : i \in SerieIds })

UpdateCall(p) ==
    /\ MaxStoredVersion + Running("update") < MaxVersion
    /\ \/ CallEnds(p, "update", [NoArg EXCEPT !.id = Undefined],
                   Result("NotFound", 0))
       \/ \E id \in CallIds, t \in Tokens :
             /\ ~VERSION_PATTERN(t)
             /\ CallEnds(p, "update", [NoArg EXCEPT !.id = id, !.version = t],
                         Result("VersionInvalid", 0))
       \/ \E id \in CallIds, t \in Tokens, sn \in Seriennummern \cup {NoString} :
             /\ VERSION_PATTERN(t)
             /\ Call(p, "update",
                     [NoArg EXCEPT !.id = id, !.version = t, !.seriennummer = sn],
                     "u_validate")
    /\ UNCHANGED << tables, sequences >>

\* variants of the version comparison: one version of slack, no comparison,
\* equality required
OutdatedLax(version, versionDb) == version + 1 < versionDb

OutdatedNever(version, versionDb) == FALSE

OutdatedUnlessEqual(version, versionDb) == version # versionDb

\* if (version < versionDb) throw new VersionOutdatedException(version)
Outdated(version, versionDb) == version < versionDb

\* #validateUpdate after its findById: the version comparison; then update
\* merges the payload into the loaded entity and calls #repo.save(merged)
ValidateUpdate(p) ==
    /\ pc[p] = "u_validate"
    /\ LET version == ParseInt(Slice1(arg[p].version))
           db == BuildIdGetOne(arg[p].id, FALSE) IN
          IF IsNull(db) THEN Return(p, Result("NotFound", 0))
          ELSE IF Outdated(version, db.version)
          THEN Return(p, Result("VersionOutdated", version))
          ELSE /\ pc' = [pc EXCEPT ![p] = "u_save"]
               /\ serieDb' = [serieDb EXCEPT ![p] = Merge(Normalised(db), arg[p])]
               /\ UNCHANGED << op, arg, res, mail, buecher >>
    /\ UNCHANGED << tables, sequences >>

\* variant of the written row: the version column left as it was
SavedRowSameVersion(row, merged) ==
    [stored |-> TRUE, version |-> row.version,
     seriennummer |-> merged.seriennummer, art |-> row.art,
     rating |-> row.rating, preis |-> row.preis,
     schlagwoerter |-> merged.schlagwoerter]

\* the row #repo.save(merged) writes over a stored row: the merged columns,
\* and the version column counted up from the stored row
SavedRow(row, merged) ==
    [stored |-> TRUE, version |-> row.version + 1,
     seriennummer |-> merged.seriennummer, art |-> row.art,
     rating |-> row.rating, preis |-> row.preis,
     schlagwoerter |-> merged.schlagwoerter]

\* #repo.save(merged): implicit transaction.  The payload carries a fresh
\* `aktualisiert`, so a stored row is always written.  When the row has been
\* deleted since it was loaded, save inserts the entity with its titel
\* (cascade insert): under the id it was loaded with, or under a generated
\* id where the insert leaves the identity column to the store.
UpdateSave(p) ==
    /\ pc[p] = "u_save"
    /\ LET id == arg[p].id
           merged == serieDb[p] IN
          IF Stored(id)
          THEN /\ serie' = [serie EXCEPT ![id] = SavedRow(serie[id], merged)]
               /\ titel' = CascadeInsertTitel(titel, merged.titelId, id,
                                                  merged.titel)
               /\ UNCHANGED sequences
               /\ Return(p, Result("version", SavedRow(serie[id], merged).version))
          ELSE \/ /\ serie' = [serie EXCEPT ![id] = InsertedRow(merged)]
                  /\ titel' = CascadeInsertTitel(titel, merged.titelId, id,
                                                  merged.titel)
                  /\ UNCHANGED sequences
                  /\ Return(p, Result("version", InsertedRow(merged).version))
               \/ /\ nextSerieId \in SerieIds
                  /\ serie' = [serie EXCEPT ![nextSerieId] = InsertedRow(merged)]
                  /\ titel' = CascadeInsertTitel(titel, nextTitelId, nextSerieId,
                                                  merged.titel)
                  /\ nextSerieId' = nextSerieId + 1
                  /\ nextTitelId' = nextTitelId + 1
                  /\ UNCHANGED nextCoverId
                  /\ Return(p, Result("version", InsertedRow(merged).version))
    /\ UNCHANGED << cover, serie_file >>

\* ---- delete
\* serie.abbildungen ?? []: the entity Serie has no property abbildungen
Abbildungen(db) == {}

\* what delete and addFile read of the entity they loaded: its id and the id
\* of its titel
IdAndTitel(db) == [NoSerie EXCEPT !.found = db.found, !.id = db.id,
                                  !.titelId = db.titelId]

DeleteCall(p) ==
    /\ \E id \in CallIds : Call(p, "delete", [NoArg EXCEPT !.id = id], "d_find")
    /\ UNCHANGED << tables, sequences >>

\* findById({ id, mitAbbildungen: true }): FindByIdParams has no property
\* mitAbbildungen, so mitCovers keeps its default
DeleteFind(p) ==
    /\ pc[p] = "d_find"
    /\ LET db == BuildIdGetOne(arg[p].id, FALSE) IN
          IF IsNull(db) THEN Return(p, Result("NotFound", 0))
          ELSE Goto(p, "d_transaction", IdAndTitel(db))
    /\ UNCHANGED << tables, sequences >>

\* variant of the store: no foreign key is enforced
NotReferenced(id, t, c, f) == FALSE

\* some row of titel, cover or serie_file references serie id
\* (serie_id integer NOT NULL REFERENCES serie)
Referenced(id, t, c, f) ==
    \/ \E r \in t : r.serie_id = id
    \/ \E r \in c : r.serie_id = id
    \/ \E i \in 1 .. Len(f) : f[i].serie_id = id

\* variant of the transaction: the statements before the failing one stay
NoRollback(before, partial, after, failed) ==
    IF failed THEN partial ELSE after

\* #repo.manager.transaction: all statements take effect, or none when one
\* of them fails
Transaction(before, partial, after, failed) ==
    IF failed THEN before ELSE after

\* variant of the callback: the serie row is deleted before the titel row
DeleteStatementsSerieFirst(db, id) ==
    << [table |-> "serie", id |-> id], [table |-> "titel", id |-> db.titelId] >>

\* the delete statements of the callback of the transaction, in order: the
\* titel row when the loaded entity has a titel, the rows of
\* serie.abbildungen, the serie row
DeleteStatements(db, id) ==
    ( IF db.titelId # 0 THEN << [table |-> "titel", id |-> db.titelId] >>
      ELSE << >> )
    \o [ i \in 1 .. Cardinality(Abbildungen(db)) |->
            [table |-> "cover", id |-> Ascending(Abbildungen(db))[i]] ]
    \o << [table |-> "serie", id |-> id] >>

\* variant of the statement: a delete of a serie row that is not stored
\* counts as one affected row
DeleteAffectsAlways(stmt, run) ==
    LET serie0 == run.tbls[1]
        titel0 == run.tbls[2]
        cover0 == run.tbls[3] IN
    CASE stmt.table = "titel" ->
           [run EXCEPT !.tbls[2] = { t \in titel0 : t.id # stmt.id }]
      [] stmt.table = "cover" ->
           [run EXCEPT !.tbls[3] = { c \in cover0 : c.id # stmt.id }]
      [] stmt.table = "serie" ->
           IF ~ serie0[stmt.id].stored THEN [run EXCEPT !.affected = 1]
           ELSE IF Referenced(stmt.id, titel0, cover0, serie_file)
           THEN [run EXCEPT !.failed = TRUE]
           ELSE [run EXCEPT !.tbls[1] = [serie0 EXCEPT ![stmt.id] = NoRow],
                            !.affected = 1]

\* transactionalMgr.delete(Entity, id): the row of that id is removed from
\* its table; the statement fails when the row is still referenced
Delete(stmt, run) ==
    LET serie0 == run.tbls[1]
        titel0 == run.tbls[2]
        cover0 == run.tbls[3] IN
    CASE stmt.table = "titel" ->
           [run EXCEPT !.tbls[2] = { t \in titel0 : t.id # stmt.id }]
      [] stmt.table = "cover" ->
           [run EXCEPT !.tbls[3] = { c \in cover0 : c.id # stmt.id }]
      [] stmt.table = "serie" ->
           IF ~ serie0[stmt.id].stored THEN [run EXCEPT !.affected = 0]
           ELSE IF Referenced(stmt.id, titel0, cover0, serie_file)
           THEN [run EXCEPT !.failed = TRUE]
           ELSE [run EXCEPT !.tbls[1] = [serie0 EXCEPT ![stmt.id] = NoRow],
                            !.affected = 1]

\* the awaited statements one after the other, up to the first that fails
RECURSIVE DeleteAll(_, _)
DeleteAll(stmts, run) ==
    IF stmts = << >> \/ run.failed THEN run
    ELSE DeleteAll(Tail(stmts), Delete(Head(stmts), run))

\* the transaction of delete and the value delete returns
DeleteTransaction(p) ==
    /\ pc[p] = "d_transaction"
    /\ LET id == arg[p].id
           before == << serie, titel, cover >>
           run == DeleteAll(DeleteStatements(serieDb[p], id),
                            [tbls |-> before, failed |-> FALSE,
                             affected |-> 0])
           end == Transaction(before, run.tbls, run.tbls, run.failed) IN
          /\ serie' = end[1]
          /\ titel' = end[2]
          /\ cover' = end[3]
          /\ IF run.failed THEN Return(p, Result("QueryFailed", 0))
             ELSE Return(p, Result(IF run.affected > 0 THEN "true" ELSE "false", 0))
    /\ UNCHANGED << serie_file, sequences >>

\* ---- addFile
AddFileCall(p) ==
    /\ \E id \in CallIds, fn \in Filenames :
          Call(p, "addFile", [NoArg EXCEPT !.id = id, !.filename = fn], "a_find")
    /\ UNCHANGED << tables, sequences >>

AddFileFind(p) ==
    /\ pc[p] = "a_find"
    /\ LET db == BuildIdGetOne(arg[p].id, FALSE) IN
          IF IsNull(db) THEN Return(p, Result("NotFound", 0))
          ELSE Goto(p, "a_delete", IdAndTitel(db))
    /\ UNCHANGED << tables, sequences >>

\* variant of the delete statement: no row is removed
DeleteFromSerieFileNothing(f, id) == f

\* delete from serie_file where serie_id = :id
DeleteFromSerieFile(f, id) == SelectSeq(f, LAMBDA r : r.serie_id # id)

\* evtl. vorhandene Datei loeschen
AddFileDelete(p) ==
    /\ pc[p] = "a_delete"
    /\ serie_file' = DeleteFromSerieFile(serie_file, arg[p].id)
    /\ Goto(p, "a_save", serieDb[p])
    /\ UNCHANGED << serie, titel, cover, sequences >>

\* #repo.save({ id: serie.id, file: serieFile }): no column of the stored serie
\* row changes, the file row is inserted (cascade insert).  When the row has
\* been deleted since it was loaded, the insert of a serie with nothing but
\* an id fails (rating integer NOT NULL).  The rows of serie_file are kept in
\* the order of their generated ids.
AddFileSave(p) ==
    /\ pc[p] = "a_save"
    /\ IF Stored(arg[p].id)
       THEN /\ serie_file' = Append(serie_file,
                  [serie_id |-> arg[p].id, filename |-> arg[p].filename])
            /\ Return(p, Result("file", 0))
       ELSE /\ UNCHANGED serie_file
            /\ Return(p, Result("QueryFailed", 0))
    /\ UNCHANGED << serie, titel, cover, sequences >>

\* ------------------------------------------------------- specifications
Step(p) ==
    \/ FindByIdCall(p)
    \/ FindById(p)
    \/ CreateCall(p)
    \/ ValidateCreate(p)
    \/ CreateSave(p)
    \/ Sendmail(p)
    \/ UpdateCall(p)
    \/ ValidateUpdate(p)
    \/ UpdateSave(p)
    \/ DeleteCall(p)
    \/ DeleteFind(p)
    \/ DeleteTransaction(p)
    \/ AddFileCall(p)
    \/ AddFileFind(p)
    \/ AddFileDelete(p)
    \/ AddFileSave(p)

Next == \E p \in SeqProcs : Step(p)

\* one caller, an empty store: every call ends before the next one begins
Spec == Init /\ [][Next]_vars

\* the store after one create: serie 1 at its first version, with its titel
\* and with or without a cover
InitRace ==
    /\ serie = [i \in SerieIds |->
                  IF i = 1 THEN InsertedRow(Alpha)
                  ELSE NoRow]
    /\ titel = { [id |-> 1, serie_id |-> 1, titel |-> Alpha.titel] }
    /\ \E n \in 0 .. 1 :
          /\ cover = { [id |-> c, serie_id |-> 1] : c \in 1 .. n }
          /\ nextCoverId = 1 + n
    /\ serie_file = << >>
    /\ nextSerieId = 2
    /\ nextTitelId = 2
    /\ pc = [p \in Procs |-> "idle"]
    /\ op = [p \in Procs |-> "none"]
    /\ arg = [p \in Procs |-> NoArg]
    /\ serieDb = [p \in Procs |-> NoSerie]
    /\ res = [p \in Procs |-> NoResult]
    /\ mail = [p \in Procs |-> "none"]
    /\ buecher = [p \in Procs |-> << >>]

StepRace(p) ==
    \/ UpdateCall(p)
    \/ ValidateUpdate(p)
    \/ UpdateSave(p)
    \/ DeleteCall(p)
    \/ DeleteFind(p)
    \/ DeleteTransaction(p)
    \/ AddFileCall(p)
    \/ AddFileFind(p)
    \/ AddFileDelete(p)
    \/ AddFileSave(p)

NextRace == \E p \in Procs : StepRace(p)

\* two callers of update, delete and addFile on a stored serie:
\* their calls interleave at every await
SpecRace == InitRace /\ [][NextRace]_vars

\* update called with the token of the version that is stored, as a client
\* does that has read the serie: update({ id, serie, version: `"${version}"` })
UpdateCurrent(p) ==
    /\ \E id \in CallIds :
          /\ Stored(id)
          /\ serie[id].version <= MaxUpdates
          /\ LET a == [NoArg EXCEPT !.id = id,
                                    !.version = VersionToken(serie[id].version)]
             IN IF ~ VERSION_PATTERN(a.version)
                THEN CallEnds(p, "update", a, Result("VersionInvalid", 0))
                ELSE Call(p, "update", a, "u_validate")
    /\ UNCHANGED << tables, sequences >>

StepToken(p) ==
    \/ UpdateCurrent(p)
    \/ ValidateUpdate(p)
    \/ UpdateSave(p)

NextToken == \E p \in SeqProcs : StepToken(p)

\* one caller that updates the serie stored after one create again and
\* again, each time with the token of the version it finds
SpecToken == InitRace /\ [][NextToken]_vars

\* the rows a serie can have once it is stored
StoredRows == { InsertedRow(dto) : dto \in StoredDTOs }

\* the titel a serie with that row was created with
TitelOfRow(row) ==
    (CHOOSE dto \in StoredDTOs : InsertedRow(dto) = row).titel

\* a store after some calls of create and delete: every serie stored with
\* its titel
InitFind ==
    /\ serie \in [SerieIds -> StoredRows \cup {NoRow}]
    /\ titel = { [id |-> i, serie_id |-> i, titel |-> TitelOfRow(serie[i])] :
                   i \in { j \in SerieIds : serie[j].stored } }
    /\ cover = {}
    /\ serie_file = << >>
    /\ nextSerieId = 1 + Cardinality(SerieIds)
    /\ nextTitelId = 1 + Cardinality(SerieIds)
    /\ nextCoverId = 1
    /\ pc = [p \in Procs |-> "idle"]
    /\ op = [p \in Procs |-> "none"]
    /\ arg = [p \in Procs |-> NoArg]
    /\ serieDb = [p \in Procs |-> NoSerie]
    /\ res = [p \in Procs |-> NoResult]
    /\ mail = [p \in Procs |-> "none"]
    /\ buecher = [p \in Procs |-> << >>]

StepFind(p) ==
    \/ FindByIdCall(p)
    \/ FindById(p)
    \/ FindCall(p)
    \/ FindGetMany(p)
    \/ FindGetCount(p)

NextFind == \E p \in SeqProcs : StepFind(p)

\* one caller of findById and find on a store of up to two series
SpecFind == InitFind /\ [][NextFind]_vars

\* find with filters of every type
TypedCall(p) ==
    /\ \E suchkriterien \in Typedkriterien, pageable \in Pageables :
          Find(p, suchkriterien, pageable)
    /\ UNCHANGED << tables, sequences >>

\* find without Suchkriterien
FindAllCall(p) ==
    /\ \E pageable \in Pageables : Find(p, NoSuchkriterien, pageable)
    /\ UNCHANGED << tables, sequences >>

StepFilter(p) ==
    \/ FilterCall(p)
    \/ FindGetMany(p)
    \/ FindGetCount(p)

NextFilter == \E p \in SeqProcs : StepFilter(p)

\* one caller of find with filters on a store of up to two series
SpecFilter == InitFind /\ [][NextFilter]_vars

StepTyped(p) ==
    \/ TypedCall(p)
    \/ FindGetMany(p)
    \/ FindGetCount(p)

NextTyped == \E p \in SeqProcs : StepTyped(p)

\* one caller of find with filters of every type on a store of up to two
\* series
SpecTyped == InitFind /\ [][NextTyped]_vars

StepFindAll(p) ==
    \/ FindAllCall(p)
    \/ FindGetMany(p)
    \/ FindGetCount(p)

StepDelete(p) ==
    \/ DeleteCall(p)
    \/ DeleteFind(p)
    \/ DeleteTransaction(p)

NextFindRace ==
    \/ \E p \in SeqProcs : StepFindAll(p)
    \/ \E p \in Procs \ SeqProcs : StepDelete(p)

\* a caller of find and a caller of delete on a store of up to two series:
\* their calls interleave at every await
SpecFindRace == InitFind /\ [][NextFindRace]_vars

\* the store after one create and one addFile: serie 1 with its titel, with
\* or without a cover, and with a file
InitFile ==
    /\ serie = [i \in SerieIds |->
                  IF i = 1 THEN InsertedRow(Alpha)
                  ELSE NoRow]
    /\ titel = { [id |-> 1, serie_id |-> 1, titel |-> Alpha.titel] }
    /\ \E n \in 0 .. 1 :
          /\ cover = { [id |-> c, serie_id |-> 1] : c \in 1 .. n }
          /\ nextCoverId = 1 + n
    /\ \E fn \in Filenames :
          serie_file = << [serie_id |-> 1, filename |-> fn] >>
    /\ nextSerieId = 2
    /\ nextTitelId = 2
    /\ pc = [p \in Procs |-> "idle"]
    /\ op = [p \in Procs |-> "none"]
    /\ arg = [p \in Procs |-> NoArg]
    /\ serieDb = [p \in Procs |-> NoSerie]
    /\ res = [p \in Procs |-> NoResult]
    /\ mail = [p \in Procs |-> "none"]
    /\ buecher = [p \in Procs |-> << >>]

StepAddFile(p) ==
    \/ AddFileCall(p)
    \/ AddFileFind(p)
    \/ AddFileDelete(p)
    \/ AddFileSave(p)

NextFileRace ==
    \/ \E p \in SeqProcs : StepAddFile(p)
    \/ \E p \in Procs \ SeqProcs : StepDelete(p)

\* a caller of addFile and a caller of delete on a serie that has a file:
\* their calls interleave at every await
SpecFileRace == InitFile /\ [][NextFileRace]_vars

\* ---------------------------------------------------------------------
\* Properties
\* ---------------------------------------------------------------------

\* the number a version token of an update call quotes
TokenNumber(a) == ParseInt(Slice1(a.version))

\* caller p has ended an update call with the new version as its result
Succeeded(p) == pc[p] = "idle" /\ op[p] = "update" /\ res[p].kind = "version"

\* caller p takes the step it is at
Leaves(p, at) == pc[p] = at /\ pc'[p] # at

\* C1 (as stated): of two update calls of the same Series that carry the
\* same token, the token of the version stored when they were checked, at
\* most one succeeds: never do both end with a new version, one with the
\* token's number plus one and the other with the token's number plus two.
C1_AtMostOneSucceeds ==
    \A p \in Procs : \A q \in Procs \ {p} :
        ( /\ Succeeded(p) /\ Succeeded(q)
          /\ arg[p].id = arg[q].id
          /\ arg[p].version = arg[q].version )
        => ~ ( /\ res[p].num = TokenNumber(arg[p]) + 1
               /\ res[q].num = TokenNumber(arg[q]) + 2 )

\* C1 (amended): when one update call has written with the token of the
\* stored version, a second update call of the same stored Series with the
\* same token whose version check comes after that write fails with
\* VersionOutdated and leaves every table as it was.  (Two calls whose
\* checks both come before either write both succeed.)
C1_CheckAfterWriteFails ==
    [][ \A p \in Procs : \A q \in Procs \ {p} :
          ( /\ Succeeded(p)
            /\ res[p].num = TokenNumber(arg[p]) + 1
            /\ Leaves(q, "u_validate")
            /\ arg[q].id = arg[p].id
            /\ arg[q].version = arg[p].version
            /\ BuildIdGetOne(arg[q].id, FALSE).found )
          => ( /\ pc'[q] = "idle"
               /\ res'[q].kind = "VersionOutdated"
               /\ tables' = tables ) ]_vars

\* C1 witness: one caller has succeeded with a token, the other has failed
\* with VersionOutdated on the same Series with the same token
C1_Witness ==
    \E p \in Procs : \E q \in Procs \ {p} :
        /\ Succeeded(p)
        /\ res[p].num = TokenNumber(arg[p]) + 1
        /\ pc[q] = "idle" /\ op[q] = "update"
        /\ res[q].kind = "VersionOutdated"
        /\ arg[q].id = arg[p].id
        /\ arg[q].version = arg[p].version
        /\ Stored(arg[p].id)

\* C2: an update of a stored Series at version s with a token whose number
\* is less than s fails with VersionOutdated, and neither the call nor the
\* check changes any table.
C2_StaleTokenFails ==
    [][ \A p \in Procs :
          /\ ( Leaves(p, "idle") /\ op'[p] = "update" ) => tables' = tables
          /\ ( /\ Leaves(p, "u_validate")
               /\ BuildIdGetOne(arg[p].id, FALSE).found
               /\ TokenNumber(arg[p]) < serie[arg[p].id].version )
             => ( /\ pc'[p] = "idle"
                  /\ res'[p] = Result("VersionOutdated", TokenNumber(arg[p]))
                  /\ tables' = tables ) ]_vars

\* C2 witness: an update has ended with VersionOutdated on a stored Series
\* whose version is greater than the token's number
C2_Witness ==
    \E p \in Procs :
        /\ pc[p] = "idle" /\ op[p] = "update"
        /\ res[p].kind = "VersionOutdated"
        /\ Stored(arg[p].id)
        /\ TokenNumber(arg[p]) < serie[arg[p].id].version

\* C3: with one caller, an update of a stored Series at version s with the
\* token of s passes the check, stores and returns s + 1; findById reports
\* the stored version; and an update with the token of the version before
\* the stored one fails with VersionOutdated.
C3_MatchingTokenSucceeds ==
    [][ \A p \in Procs :
          LET id == arg[p].id IN
          /\ ( /\ Leaves(p, "u_validate")
               /\ BuildIdGetOne(id, FALSE).found
               /\ arg[p].version = VersionToken(serie[id].version) )
             => pc'[p] = "u_save"
          /\ ( /\ Leaves(p, "u_save")
               /\ Stored(id)
               /\ arg[p].version = VersionToken(serie[id].version) )
             => ( /\ pc'[p] = "idle"
                  /\ res'[p] = Result("version", serie[id].version + 1)
                  /\ serie'[id].version = serie[id].version + 1 )
          /\ ( /\ Leaves(p, "f_getOne")
               /\ BuildIdGetOne(id, FALSE).found )
             => res'[p] = Result("serie", serie[id].version)
          /\ ( /\ Leaves(p, "u_validate")
               /\ BuildIdGetOne(id, FALSE).found
               /\ serie[id].version > 0
               /\ arg[p].version = VersionToken(serie[id].version - 1) )
             => ( /\ pc'[p] = "idle"
                  /\ res'[p].kind = "VersionOutdated"
                  /\ tables' = tables ) ]_vars

\* C3 witness: an update with the token of the stored version s has ended
\* with s + 1, and s + 1 is the stored version
C3_Witness ==
    \E p \in Procs :
        /\ Succeeded(p)
        /\ res[p].num > 0
        /\ arg[p].version = VersionToken(res[p].num - 1)
        /\ Stored(arg[p].id)
        /\ serie[arg[p].id].version = res[p].num

C5_GreaterTokenAccepted ==
    [][ \A p \in Procs :
          LET id == arg[p].id IN
          /\ ( /\ Leaves(p, "u_validate")
               /\ BuildIdGetOne(id, FALSE).found
               /\ TokenNumber(arg[p]) > serie[id].version )
             => ( pc'[p] = "u_save" /\ tables' = tables )
          /\ ( /\ Leaves(p, "u_save")
               /\ Stored(id)
               /\ TokenNumber(arg[p]) > serie[id].version )
             => ( /\ pc'[p] = "idle"
                  /\ res'[p] = Result("version", serie[id].version + 1)
                  /\ serie'[id].version = serie[id].version + 1 ) ]_vars

\* C5 witness: an update with a token whose number is greater than the
\* stored version has ended with the stored version plus one
C5_Witness ==
    \E p \in Procs :
        /\ Succeeded(p)
        /\ TokenNumber(arg[p]) > res[p].num
        /\ Stored(arg[p].id)
        /\ serie[arg[p].id].version = res[p].num

\* C6 (as stated): a delete call of an id under which no Series is stored
\* (never stored, or removed by an earlier delete) ends with the result
\* false, never with an error.
C6_DeleteOfAbsentIsFalse ==
    [][ \A p \in Procs :
          ( /\ op[p] = "delete"
            /\ pc[p] # "idle" /\ pc'[p] = "idle"
            /\ ~ Stored(arg[p].id) )
          => res'[p].kind = "false" ]_vars

\* C7: every titel, cover and serie_file row references a stored serie row:
\* no row of a Series is stored when the Series is not.
C7_RowsOwnedByStoredSerie ==
    /\ \A t \in titel : Stored(t.serie_id)
    /\ \A c \in cover : Stored(c.serie_id)
    /\ \A i \in 1 .. Len(serie_file) : Stored(serie_file[i].serie_id)

\* C7 witness: a delete has ended with true and the Series is not stored
C7_Witness ==
    \E p \in Procs :
        /\ pc[p] = "idle" /\ op[p] = "delete"
        /\ res[p].kind = "true"
        /\ ~ Stored(arg[p].id)

\* C8: when the transaction of a delete fails, every table is as it was
\* before the transaction.
C8_FailedDeleteHasNoEffect ==
    [][ \A p \in Procs :
          ( Leaves(p, "d_transaction") /\ res'[p].kind = "QueryFailed" )
          => ( pc'[p] = "idle" /\ tables' = tables ) ]_vars

\* C8 witness: a delete has failed in its transaction, and the Series is
\* stored with its titel and a cover
C8_Witness ==
    \E p \in Procs :
        /\ pc[p] = "idle" /\ op[p] = "delete"
        /\ res[p].kind = "QueryFailed"
        /\ Stored(arg[p].id)
        /\ TitelOf(arg[p].id) # {}
        /\ CoversOf(arg[p].id) # {}

\* C9: every stored Series has exactly one titel row, in every state two
\* callers reach whose update, addFile and delete calls interleave.
C9_ExactlyOneTitel ==
    \A id \in SerieIds : Stored(id) => Cardinality(TitelOf(id)) = 1

\* C9 witness: a delete has removed a Series, and the save of an update
\* that had loaded it before has stored it again
C9_Witness ==
    \E p \in Procs : \E q \in Procs \ {p} :
        /\ pc[p] = "idle" /\ op[p] = "delete" /\ res[p].kind = "true"
        /\ Succeeded(q)
        /\ arg[q].id = arg[p].id
        /\ Stored(arg[p].id)

\* C10 (as stated): create ends with IsbnExists exactly when a stored Series
\* has the seriennummer of the new Series.
C10_RejectedIffSeriennummerStored ==
    [][ \A p \in Procs :
          Leaves(p, "c_validate")
          => ( ( pc'[p] = "idle" /\ res'[p].kind = "IsbnExists" )
               <=> \E i \in SerieIds :
                      /\ Stored(i)
                      /\ serie[i].seriennummer = arg[p].seriennummer ) ]_vars

FilesIn(f, id) == SelectSeq(f, LAMBDA r : r.serie_id = id)

\* C13: with one caller, an addFile of a stored Series first leaves the
\* Series without a file row and then ends with exactly one file row of
\* the Series, which carries the filename of this call: after two addFile
\* calls in a row the one row is that of the second call.
C13_SecondFileReplacesFirst ==
    [][ \A p \in Procs :
          LET id == arg[p].id IN
          /\ Leaves(p, "a_delete")
             => ( pc'[p] = "a_save" /\ FilesIn(serie_file', id) = << >> )
          /\ ( Leaves(p, "a_save") /\ Stored(id) )
             => ( /\ pc'[p] = "idle"
                  /\ res'[p].kind = "file"
                  /\ FilesIn(serie_file', id) =
                        << [serie_id |-> id, filename |-> arg[p].filename] >> ) ]_vars

\* C13 witness: a second addFile of a Series, with another filename than
\* the stored file has, is at its delete statement
C13_Witness ==
    \E p \in Procs :
        /\ pc[p] = "a_delete"
        /\ Len(FilesOf(arg[p].id)) = 1
        /\ FilesOf(arg[p].id)[1].filename # arg[p].filename

\* C14 (as stated): no Series has more than one file row, in every state
\* two callers reach whose addFile calls interleave.
C14_AtMostOneFile ==
    \A id \in SerieIds : Len(FilesOf(id)) <= 1

\* the whole of t is a decimal integer between double quotes
QuotedInteger(t) ==
    /\ Len(t) >= 3
    /\ t[1] = Quote
    /\ t[Len(t)] = Quote
    /\ \A i \in 2 .. (Len(t) - 1) : IsDigit(t[i])

\* caller p starts a call of o in this step
Calls(p, o) ==
    /\ pc[p] = "idle"
    /\ op'[p] = o
    /\ << pc[p], op[p], arg[p], res[p] >> # << pc'[p], op'[p], arg'[p], res'[p] >>

\* C15 (as stated): an update call whose version token is not, as a whole,
\* a decimal integer between double quotes ends at once with
\* VersionInvalid and changes no table.
C15_OtherShapesAreInvalid ==
    [][ \A p \in Procs :
          ( /\ Calls(p, "update")
            /\ arg'[p].id # Undefined
            /\ ~ QuotedInteger(arg'[p].version) )
          => ( /\ pc'[p] = "idle"
               /\ res'[p].kind = "VersionInvalid"
               /\ tables' = tables ) ]_vars

\* C16: with one caller, an update call with an undefined id ends at once
\* with NotFound, and an update call with a token the pattern accepts for
\* an id under which no Series is stored ends with NotFound at its load;
\* neither changes a table, so no serie row is created.
C16_UpdateOfAbsentIsNotFound ==
    [][ \A p \in Procs :
          /\ ( Calls(p, "update") /\ arg'[p].id = Undefined )
             => ( /\ pc'[p] = "idle"
                  /\ res'[p].kind = "NotFound"
                  /\ tables' = tables )
          /\ Calls(p, "update") => tables' = tables
          /\ ( Leaves(p, "u_validate") /\ ~ Stored(arg[p].id) )
             => ( /\ pc'[p] = "idle"
                  /\ res'[p].kind = "NotFound"
                  /\ tables' = tables ) ]_vars

\* C16 witness: an update with the token of a version has ended with
\* NotFound for an id whose Series has been deleted
C16_Witness ==
    \E p \in Procs :
        /\ pc[p] = "idle" /\ op[p] = "update"
        /\ res[p].kind = "NotFound"
        /\ arg[p].id \in SerieIds
        /\ QuotedInteger(arg[p].version)
        /\ ~ Stored(arg[p].id)

\* C17 (as stated): once the Series of a generated id is not stored any
\* more, it is never stored again, whatever calls interleave with the
\* delete; and findById, update and addFile of that id end with NotFound at
\* their load, changing no table.
C17_DeletedIsTerminal ==
    [][ /\ \A id \in SerieIds :
              ( id < nextSerieId /\ ~ Stored(id) ) => ~ serie'[id].stored
        /\ \A p \in Procs :
              ( /\ ~ Stored(arg[p].id)
                /\ \/ Leaves(p, "f_getOne")
                   \/ Leaves(p, "u_validate")
                   \/ Leaves(p, "a_find") )
              => ( /\ pc'[p] = "idle"
                   /\ res'[p].kind = "NotFound"
                   /\ tables' = tables ) ]_vars

\* ---- find
\* the keys find recognizes: the names of the properties of Serie and the
\* four names of a Schlagwort
RecognizedKeys == SerieProps \cup {"javascript", "typescript", "java", "python"}

\* Suchkriterien whose keys are all recognized and whose art, if present, is
\* a SerieArt
ValidCriteria(sk) ==
    /\ DOMAIN sk.props \subseteq RecognizedKeys
    /\ "art" \in DOMAIN sk.props => sk.props["art"] \in Arten

\* non-empty Suchkriterien with an unrecognized key or with an art that is
\* no SerieArt
WrongCriteria(sk) ==
    /\ ~ sk.undefined
    /\ DOMAIN sk.props # {}
    /\ ~ ValidCriteria(sk)

\* the number of stored series that meet every one of the Suchkriterien
Matching(sk) ==
    Cardinality({ i \in SerieIds :
                    /\ Stored(i)
                    /\ \A k \in DOMAIN sk.props : serie[i][k] = sk.props[k] })

\* no matching serie is on the page asked for
NothingOnPage(a) ==
    IF a.pageable.size = 0 THEN Matching(a.suchkriterien) = 0
    ELSE Matching(a.suchkriterien) <= a.pageable.number * a.pageable.size

C19_ValidCriteriaReachQuery ==
    [][ \A p \in Procs :
          ( Calls(p, "find") /\ ValidCriteria(arg'[p].suchkriterien) )
          => pc'[p] = "f_getMany" ]_vars

\* C19 witness: a find with a seriennummer and the art DVD has returned a
\* page.
C19_Witness ==
    \E p \in Procs :
        /\ pc[p] = "idle" /\ op[p] = "find"
        /\ res[p].kind = "slice"
        /\ DOMAIN arg[p].suchkriterien.props = {"seriennummer", "art"}
        /\ arg[p].suchkriterien.props["art"] = "DVD"

C24_FindByIdFindsTheStored ==
    [][ \A p \in Procs :
          Leaves(p, "f_getOne")
          => LET id == arg[p].id IN
             /\ pc'[p] = "idle"
             /\ res'[p].kind = "NotFound" <=> ~ Stored(id)
             /\ Stored(id) =>
                   /\ res'[p].kind = "serie"
                   /\ serieDb'[p].id = id
                   /\ serieDb'[p].version = serie[id].version
                   /\ serieDb'[p].seriennummer = serie[id].seriennummer
                   /\ \E t \in titel : /\ t.serie_id = id
                                       /\ t.id = serieDb'[p].titelId
                   /\ serieDb'[p].coversLoaded = arg[p].mitCovers
                   /\ serieDb'[p].covers =
                         IF arg[p].mitCovers
                         THEN { c.id : c \in CoversOf(id) }
                         ELSE {}
             /\ tables' = tables ]_vars

\* C24 witness: a findById that did not ask for the Covers has returned a
\* Series that owns a Cover row, without Covers.
C24_Witness ==
    \E p \in Procs :
        /\ pc[p] = "idle" /\ op[p] = "findById"
        /\ res[p].kind = "serie"
        /\ ~ serieDb[p].coversLoaded
        /\ serieDb[p].covers = {}
        /\ CoversOf(serieDb[p].id) # {}

\* C26 (as stated): an update call with a token that is not, as a whole, a
\* quoted decimal integer ends with VersionInvalid before any read of the
\* store, whether or not a Series is stored under its id; for tokens that
\* pass, the existence of the Series is checked before the versions are
\* compared: no Series ends the call with NotFound, and VersionOutdated is
\* only raised for a stored Series.
C26_ShapeExistenceVersion ==
    [][ \A p \in Procs :
          /\ ( /\ Calls(p, "update")
               /\ arg'[p].id # Undefined
               /\ ~ QuotedInteger(arg'[p].version) )
             => ( /\ pc'[p] = "idle"
                  /\ res'[p].kind = "VersionInvalid"
                  /\ serieDb'[p] = NoSerie
                  /\ tables' = tables )
          /\ ( Leaves(p, "u_validate") /\ ~ Stored(arg[p].id) )
             => res'[p].kind = "NotFound"
          /\ ( Leaves(p, "u_validate") /\ res'[p].kind = "VersionOutdated" )
             => Stored(arg[p].id) ]_vars

\* the token "-1"
MinusOne == << Quote, "-", "1", Quote >>

\* C28 (as stated): an update of a stored Series with the token "-1" ends
\* with VersionOutdated and leaves the tables unchanged.
C28_MinusOneIsOutdated ==
    [][ \A p \in Procs :
          ( /\ Calls(p, "update")
            /\ arg'[p].version = MinusOne
            /\ Stored(arg'[p].id) )
          => ( /\ res'[p].kind \in {"none", "VersionOutdated"}
               /\ tables' = tables ) ]_vars

\* C28 (amended): an update of a stored Series with the token "-1" ends
\* at once with VersionInvalid, before the Series is read, and leaves the
\* tables unchanged.
C28_MinusOneIsInvalid ==
    [][ \A p \in Procs :
          ( /\ Calls(p, "update")
            /\ arg'[p].version = MinusOne
            /\ Stored(arg'[p].id) )
          => ( /\ pc'[p] = "idle"
               /\ res'[p].kind = "VersionInvalid"
               /\ serieDb'[p] = NoSerie
               /\ tables' = tables ) ]_vars

\* C28 witness: an update of a stored Series with the token "-1" has ended
\* with VersionInvalid.
C28_Witness ==
    \E p \in Procs :
        /\ pc[p] = "idle" /\ op[p] = "update"
        /\ arg[p].version = MinusOne
        /\ Stored(arg[p].id)
        /\ res[p].kind = "VersionInvalid"

\* C29: with one caller, an update that ends with a new version has written
\* the seriennummer of its payload when the payload has one, and has left
\* the stored seriennummer when the payload has none; the art, which the
\* payload does not have, is the stored one.
C29_PayloadMerged ==
    [][ \A p \in Procs :
          ( Leaves(p, "u_save") /\ res'[p].kind = "version" )
          => LET id == arg[p].id IN
             /\ serie'[id].stored
             /\ serie'[id].seriennummer =
                   IF arg[p].seriennummer # NoString
                   THEN arg[p].seriennummer
                   ELSE serie[id].seriennummer
             /\ serie'[id].art = serie[id].art ]_vars

\* C29 witness: a Series created with SER-1 and STREAM has been updated
\* twice: it holds the SER-2 of a payload and still its art STREAM.
C29_Witness ==
    \E p \in Procs : \E id \in SerieIds :
        /\ pc[p] = "idle" /\ op[p] = "update" /\ arg[p].id = id
        /\ res[p].kind = "version"
        /\ res[p].num = 2
        /\ Stored(id)
        /\ serie[id].seriennummer = "SER-2"
        /\ serie[id].art = "STREAM"

\* C30 (as stated): no step of an update call changes a row of titel, of
\* cover or of serie_file, or the row of a Series other than the one the
\* call names, and the call stores its Series under no other id.
C30_UpdateFrame ==
    [][ \A p \in Procs :
          ( \/ Calls(p, "update")
            \/ Leaves(p, "u_validate")
            \/ Leaves(p, "u_save") )
          => ( /\ titel' = titel
               /\ cover' = cover
               /\ serie_file' = serie_file
               /\ \A j \in SerieIds :
                     j # arg'[p].id => serie'[j] = serie[j] ) ]_vars

C27_CurrentTokenPasses ==
    [][ \A p \in Procs :
          ( /\ Calls(p, "update")
            /\ Stored(arg'[p].id)
            /\ arg'[p].version = VersionToken(serie[arg'[p].id].version) )
          => res'[p].kind # "VersionInvalid" ]_vars

\* C23: the Series findById returns and every Series of the content find
\* returns has schlagwoerter that are an array, never null: the empty one
\* when the row stores none, the stored ones otherwise.
C23_SchlagwoerterNeverNull ==
    [][ \A p \in Procs :
          /\ ( Leaves(p, "f_getOne") /\ res'[p].kind = "serie" )
             => LET stored == serie[arg[p].id].schlagwoerter IN
                /\ ~ serieDb'[p].schlagwoerter.null
                /\ serieDb'[p].schlagwoerter.array =
                      IF stored.null THEN << >> ELSE stored.array
          /\ ( Leaves(p, "f_getCount") /\ res'[p].kind = "slice" )
             => \A i \in 1 .. Len(buecher'[p]) :
                   LET stored == serie[buecher'[p][i].id].schlagwoerter IN
                   /\ ~ buecher'[p][i].schlagwoerter.null
                   /\ buecher'[p][i].schlagwoerter.array =
                         IF stored.null THEN << >> ELSE stored.array ]_vars

\* C23 witness: find has returned a page with two Series, one stored
\* without schlagwoerter and one stored with some.
C23_Witness ==
    \E p \in Procs :
        /\ pc[p] = "idle" /\ op[p] = "find"
        /\ res[p].kind = "slice"
        /\ Len(buecher[p]) = 2
        /\ serie[buecher[p][1].id].schlagwoerter.null
        /\ buecher[p][1].schlagwoerter = Array(<< >>)
        /\ ~ serie[buecher[p][2].id].schlagwoerter.null
        /\ buecher[p][2].schlagwoerter.array # << >>

\* ---- filters
\* is the tag one of the schlagwoerter of a Series
Tagged(e, tag) ==
    /\ ~ e.schlagwoerter.null
    /\ \E j \in 1 .. Len(e.schlagwoerter.array) : e.schlagwoerter.array[j] = tag

\* the Series of an id as a find returns it
SerieOf(id) == [Entity(id) EXCEPT !.schlagwoerter = EmptyIfNull(@)]

\* the number a filter value stands for, as a number or as a numeric
\* string; Undefined when it stands for none
NumberOf(value) ==
    IF value.typeof = "number" THEN value.number
    ELSE IF value.typeof = "string" /\ Len(value.string) > 0
            /\ LeadingDigits(value.string) = Len(value.string)
         THEN DigitsValue(value.string, Len(value.string))
         ELSE Undefined

\* is a filter value true, as the boolean or as the string 'true'
SetToTrue(value) ==
    \/ value.typeof = "boolean" /\ value.boolean
    \/ value.typeof = "string" /\ value.string = True

\* does a Series satisfy the filter of a key with the value of the filter:
\* the titel contains the value, whatever the case of the letters, the
\* rating is at least the value, the preis is at most the value (a value
\* that is no number constrains nothing), the tag of the name is among the
\* schlagwoerter when the name is set to true
Satisfies(e, key, value) ==
    CASE key = "titel" -> Like(Lower(e.titel), Lower(value.string))
      [] key = "rating" ->
           NumberOf(value) = Undefined \/ e.rating >= NumberOf(value)
      [] key = "preis" ->
           NumberOf(value) = Undefined \/ e.preis <= NumberOf(value)
      [] key = "javascript" -> SetToTrue(value) => Tagged(e, JAVASCRIPT)
      [] key = "java" -> SetToTrue(value) => Tagged(e, JAVA)

\* C21: every Series of the content a find returns satisfies every filter
\* of its Suchkriterien: filters are combined with AND.
C21_FiltersCombinedWithAnd ==
    [][ \A p \in Procs :
          ( Leaves(p, "f_getCount") /\ res'[p].kind = "slice" )
          => \A j \in 1 .. Len(buecher'[p]) :
                \A key \in DOMAIN arg[p].suchkriterien.props :
                    Satisfies(buecher'[p][j], key,
                              arg[p].suchkriterien.props[key]) ]_vars

\* a Series whose only tag with JAVA in it is JAVASCRIPT
OnlyJavascript(e) == Tagged(e, JAVASCRIPT) /\ ~ Tagged(e, JAVA)

\* a stored Series tagged with JAVA and with JAVASCRIPT that satisfies the
\* filters of the Suchkriterien other than java
BothAndTheOthers(id, props) ==
    /\ Stored(id)
    /\ Tagged(SerieOf(id), JAVA)
    /\ Tagged(SerieOf(id), JAVASCRIPT)
    /\ \A key \in DOMAIN props \ {"java"} :
          Satisfies(SerieOf(id), key, props[key])

JavaSet(a) ==
    /\ "java" \in DOMAIN a.suchkriterien.props
    /\ a.suchkriterien.props["java"] = String(True)

\* C22: a find with the filter java never returns a Series whose only tag
\* with JAVA in it is JAVASCRIPT; without paging it finds, and returns in
\* its content, every stored Series tagged with JAVA and JAVASCRIPT that
\* satisfies the other filters.
C22_JavaIsNotJavascript ==
    [][ \A p \in Procs :
          /\ ( Leaves(p, "f_getCount") /\ JavaSet(arg[p]) )
             => /\ res'[p].kind = "slice"
                /\ \A j \in 1 .. Len(buecher'[p]) :
                      ~ OnlyJavascript(buecher'[p][j])
                /\ arg[p].pageable.size = 0
                   => \A id \in SerieIds :
                         BothAndTheOthers(id, arg[p].suchkriterien.props)
                         => \E j \in 1 .. Len(buecher'[p]) :
                               buecher'[p][j].id = id
          /\ ( /\ Leaves(p, "f_getMany") /\ JavaSet(arg[p])
               /\ arg[p].pageable.size = 0
               /\ \E id \in SerieIds :
                     BothAndTheOthers(id, arg[p].suchkriterien.props) )
             => pc'[p] = "f_getCount" ]_vars

\* C22 witness: a find with the filter java and without paging, on a store
\* with a Series tagged JAVASCRIPT only and a Series tagged JAVASCRIPT and
\* JAVA, has returned the second one alone.
C22_Witness ==
    \E p \in Procs :
        /\ pc[p] = "idle" /\ op[p] = "find"
        /\ res[p].kind = "slice"
        /\ JavaSet(arg[p]) /\ arg[p].pageable.size = 0
        /\ \E a, b \in SerieIds :
              /\ Stored(a) /\ OnlyJavascript(SerieOf(a))
              /\ Stored(b) /\ Tagged(SerieOf(b), JAVA)
              /\ Tagged(SerieOf(b), JAVASCRIPT)
              /\ Len(buecher[p]) = 1
              /\ buecher[p][1].id = b

\* the Suchkriterien without the filter of a key
Without(props, key) == [k \in DOMAIN props \ {key} |-> props[k]]

\* C31: when the Suchkriterien have a rating that is a number r, every
\* Series of the content a find returns has a rating of at least r; when
\* the rating is no number, the find gets the rows it gets without the
\* rating and does not end with an error because of it.
C31_RatingIsLowerBound ==
    [][ \A p \in Procs :
          LET props == arg[p].suchkriterien.props IN
          /\ ( /\ Leaves(p, "f_getCount") /\ res'[p].kind = "slice"
               /\ "rating" \in DOMAIN props
               /\ NumberOf(props["rating"]) # Undefined )
             => \A j \in 1 .. Len(buecher'[p]) :
                   buecher'[p][j].rating >= NumberOf(props["rating"])
          /\ ( /\ Leaves(p, "f_getMany")
               /\ "rating" \in DOMAIN props
               /\ NumberOf(props["rating"]) = Undefined )
             => LET rows == GetMany(Build(Without(props, "rating")),
                                    arg[p].pageable)
                IN IF Len(rows) = 0
                   THEN pc'[p] = "idle" /\ res'[p].kind = "NotFound"
                   ELSE /\ pc'[p] = "f_getCount"
                        /\ buecher'[p] = Entities(rows) ]_vars

\* C32: when the Suchkriterien have a preis p, given as a number or as a
\* numeric string, every Series of the content a find returns has a preis
\* of at most p.
C32_PreisIsUpperBound ==
    [][ \A p \in Procs :
          LET props == arg[p].suchkriterien.props IN
          ( /\ Leaves(p, "f_getCount") /\ res'[p].kind = "slice"
            /\ "preis" \in DOMAIN props
            /\ NumberOf(props["preis"]) # Undefined )
          => \A j \in 1 .. Len(buecher'[p]) :
                buecher'[p][j].preis <= NumberOf(props["preis"]) ]_vars

\* C33: when the Suchkriterien have javascript set to true, as the boolean
\* or as the string 'true', every Series of the content a find returns has
\* the tag JAVASCRIPT among its schlagwoerter.
C33_ShortcutMeansTag ==
    [][ \A p \in Procs :
          LET props == arg[p].suchkriterien.props IN
          ( /\ Leaves(p, "f_getCount") /\ res'[p].kind = "slice"
            /\ "javascript" \in DOMAIN props
            /\ SetToTrue(props["javascript"]) )
          => \A j \in 1 .. Len(buecher'[p]) :
                Tagged(buecher'[p][j], JAVASCRIPT) ]_vars

\* ---- pages
\* the ids of the stored series that meet every one of the Suchkriterien
MatchingIds(sk) ==
    { i \in SerieIds :
        /\ Stored(i)
        /\ \A k \in DOMAIN sk.props : serie[i][k] = sk.props[k] }

\* the place of an id among the matching ids, counted from 1
Place(id, ids) == 1 + Cardinality({ i \in ids : i < id })

\* the ids of a content
IdsOf(content) == { content[j].id : j \in 1 .. Len(content) }

\* C34: for a page number n and a page size s > 0 the content of a find is
\* the at most s matching Series that follow the first n * s matching
\* Series, and another page of the same Suchkriterien and size over the
\* same store shares no Series with it; with s = 0 the content is all
\* matching Series.
C34_PageFollowsSkipped ==
    [][ \A p \in Procs :
          ( Leaves(p, "f_getCount") /\ res'[p].kind = "slice" )
          => LET ids == MatchingIds(arg[p].suchkriterien)
                 n == arg[p].pageable.number
                 s == arg[p].pageable.size
                 content == buecher'[p]
             IN IF s = 0
                THEN /\ IdsOf(content) = ids
                     /\ Len(content) = Cardinality(ids)
                ELSE /\ Len(content) = Min(s, Cardinality(ids) - n * s)
                     /\ \A j \in 1 .. Len(content) :
                           /\ content[j].id \in ids
                           /\ Place(content[j].id, ids) = n * s + j
                     /\ \A m \in 0 .. MaxPageNumber :
                           m # n =>
                           \A j \in 1 .. Len(content) :
                              \A k \in 1 .. s :
                                 Place(content[j].id, ids) # m * s + k ]_vars

\* C34 witness: a find for page 1 of size 1 has returned the second of two
\* matching Series.
C34_Witness ==
    \E p \in Procs :
        /\ pc[p] = "idle" /\ op[p] = "find"
        /\ res[p].kind = "slice"
        /\ arg[p].pageable = [number |-> 1, size |-> 1]
        /\ Cardinality(MatchingIds(arg[p].suchkriterien)) = 2
        /\ Len(buecher[p]) = 1
        /\ buecher[p][1].id = 2

\* C35: the totalElements a find returns is the number of all stored Series
\* that match its Suchkriterien, whatever page number and page size it asks
\* for, and so at least the length of its content.
C35_TotalCountsAllMatches ==
    [][ \A p \in Procs :
          ( Leaves(p, "f_getCount") /\ res'[p].kind = "slice" )
          => /\ res'[p].num = Cardinality(MatchingIds(arg[p].suchkriterien))
             /\ res'[p].num >= Len(buecher'[p]) ]_vars

\* C35 witness: a find for page 0 of size 1 has returned one Series and
\* totalElements 2.
C35_Witness ==
    \E p \in Procs :
        /\ pc[p] = "idle" /\ op[p] = "find"
        /\ res[p] = Result("slice", 2)
        /\ arg[p].pageable = [number |-> 0, size |-> 1]
        /\ Len(buecher[p]) = 1

\* C36: the totalElements a find returns is at least the length of the
\* content it returns, also when a call of another caller changes the
\* store between the query of the content and the query of the count.
C36_TotalCoversContent ==
    [][ \A p \in Procs :
          ( Leaves(p, "f_getCount") /\ res'[p].kind = "slice" )
          => res'[p].num >= Len(buecher'[p]) ]_vars

\* C37: no two stored Series have the same seriennummer.
C37_SeriennummerUnique ==
    \A i, j \in SerieIds :
        ( Stored(i) /\ Stored(j) /\ i # j )
        => serie[i].seriennummer # serie[j].seriennummer

\* C38: an addFile of a Series that has a file, which fails at its insert
\* after its delete statement ran, leaves the Series with a file.  (Where
\* one caller alone calls addFile and the Series starts with a file, the
\* Series has a file whenever an addFile begins, unless an addFile before it
\* has failed.)
C38_FailedAddFileKeepsFile ==
    \A p \in Procs :
        ( pc[p] = "idle" /\ op[p] = "addFile" /\ res[p].kind = "QueryFailed" )
        => FilesIn(serie_file, arg[p].id) # << >>

\* C39: a delete returns true exactly when its own transaction removes the
\* Series row, and then no Title row and no Cover row of the Series is
\* left; so of two deletes of a stored Series that interleave at most one
\* returns true, and the one whose transaction finds the Series gone
\* returns false.
C39_OneDeleteRemoves ==
    [][ \A p \in Procs :
          Leaves(p, "d_transaction")
          => LET id == arg[p].id IN
             /\ res'[p].kind = "true"
                <=> ( serie[id].stored /\ ~ serie'[id].stored )
             /\ res'[p].kind = "true"
                => /\ \A t \in titel' : t.serie_id # id
                   /\ \A c \in cover' : c.serie_id # id
             /\ ~ serie[id].stored
                => ( res'[p].kind = "false" /\ UNCHANGED tables )
             /\ \A q \in Procs \ {p} :
                   ( /\ pc[q] = "idle" /\ op[q] = "delete"
                     /\ res[q].kind = "true" /\ arg[q].id = id
                     /\ ~ serie[id].stored )
                   => res'[p].kind # "true" ]_vars

\* C39 witness: two deletes of the same Series have interleaved: both found
\* the Series, one has returned true and the other, whose transaction ran
\* second, has returned false.
C39_Witness ==
    \E p, q \in Procs :
        /\ p # q
        /\ pc[p] = "idle" /\ op[p] = "delete" /\ res[p].kind = "true"
        /\ pc[q] = "idle" /\ op[q] = "delete" /\ res[q].kind = "false"
        /\ arg[p].id = arg[q].id
        /\ ~ Stored(arg[p].id)
        /\ TitelOf(arg[p].id) = {}

\* ---- calls that end with an error
ErrorKinds == {"NotFound", "IsbnExists", "VersionInvalid", "VersionOutdated"}

WriteOps == {"create", "update", "delete", "addFile"}

\* the first await of create, update, delete and addFile
FirstAwaits == {"c_validate", "u_validate", "d_find", "a_find"}

\* a step in which a call of a caller ends with one of the errors
EndsWithError(p) ==
    /\ pc'[p] = "idle"
    /\ op'[p] \in WriteOps
    /\ res'[p].kind \in ErrorKinds
    /\ \/ pc[p] # "idle"
       \/ << op[p], arg[p], res[p] >> # << op'[p], arg'[p], res'[p] >>

\* C40: a call of create, update, delete or addFile that ends with
\* NotFound, AlreadyExists, InvalidVersion or OutdatedVersion has changed no
\* row of Series, Title, Cover and BinaryFile: it ends at its beginning or
\* at its first await, which is reached from the beginning without a
\* change of a row and changes no row itself; an update, delete or addFile
\* of a Series that is not stored ends there with NotFound.
C40_ErrorsChangeNothing ==
    [][ \A p \in Procs :
          /\ EndsWithError(p)
             => ( UNCHANGED tables /\ pc[p] \in FirstAwaits \cup {"idle"} )
          /\ ( pc[p] = "idle" /\ pc'[p] \in FirstAwaits ) => UNCHANGED tables
          /\ ( /\ pc[p] \in FirstAwaits \ {"c_validate"} /\ pc'[p] # pc[p]
               /\ ~ Stored(arg[p].id) )
             => ( EndsWithError(p) /\ res'[p].kind = "NotFound" ) ]_vars

\* C40 witness: an update of a stored Series that has been updated before
\* has ended with VersionOutdated.
C40_Witness ==
    \E p \in Procs :
        /\ pc[p] = "idle" /\ op[p] = "update"
        /\ res[p].kind = "VersionOutdated"
        /\ Stored(arg[p].id)
        /\ serie[arg[p].id].version > 0

====
